---- MODULE Spec2Model ----
(***************************************************************************)
(* The file-browser MCP server of                                          *)
(*   src/version_2/mcpservers/examples/file_browser_server.py              *)
(* as a state machine: an HTTP request handler (do_OPTIONS, do_GET,        *)
(* do_POST) in front of three tool handlers that inspect a filesystem      *)
(* behind a path guard.                                                    *)
(*                                                                         *)
(* Strings the code compares character by character (filesystem paths,    *)
(* MIME types) are sequences of one-character strings.  A filesystem path  *)
(* is kept as the sequence of its '/'-separated segments (what             *)
(* path.split('/') returns, a bijection with the string).                  *)
(* Byte strings and texts are run-length                                   *)
(* records so that a file of MAX_FILE_SIZE bytes is representable.         *)
(***************************************************************************)
EXTENDS Integers, Sequences, FiniteSets, TLC

VARIABLES fs, cwd, pc, req, resp, io, called, mount, started, before

vars == <<fs, cwd, pc, req, resp, io, called, mount, started, before>>

(***************************************************************************)
(* Sequences and character strings                                         *)
(***************************************************************************)
Last(s) == s[Len(s)]

Front(s) == SubSeq(s, 1, Len(s) - 1)

\* str.startswith(prefix)
StartsWith(s, prefix) ==
    /\ Len(prefix) <= Len(s)
    /\ SubSeq(s, 1, Len(prefix)) = prefix

\* n copies of the sequence s, concatenated
RECURSIVE Rep(_, _)
Rep(n, s) == IF n <= 0 THEN <<>> ELSE s \o Rep(n - 1, s)

\* sep.join(segs) for the separator '/'
RECURSIVE Join(_)
Join(segs) ==
    IF Len(segs) = 0 THEN <<>>
    ELSE IF Len(segs) = 1 THEN segs[1]
    ELSE segs[1] \o <<"/">> \o Join(Tail(segs))

\* Index of the last occurrence of character c in s, 0 when there is none.
RECURSIVE RFind(_, _)
RFind(s, c) ==
    IF Len(s) = 0 THEN 0
    ELSE IF Last(s) = c THEN Len(s)
    ELSE RFind(Front(s), c)

(***************************************************************************)
(* Names used by the filesystems and requests of the model                 *)
(***************************************************************************)
EMPTY == <<>>
DOT == <<".">>
DOTDOT == <<".", ".">>
n_tmp == <<"t", "m", "p">>
n_tmpx == <<"t", "m", "p", "x">>
n_etc == <<"e", "t", "c">>
n_root == <<"r", "o", "o", "t">>
n_a_txt == <<"a", ".", "t", "x", "t">>
n_b_png == <<"b", ".", "p", "n", "g">>
n_c_json == <<"c", ".", "j", "s", "o", "n">>
n_d_jp == <<"d", ".", "j", "s", "o", "n", "-", "p", "a", "t", "c", "h">>
n_e == <<"e">>
n_s_txt == <<"s", ".", "t", "x", "t">>

(***************************************************************************)
(* Configuration (lines 16-20)                                             *)
(***************************************************************************)
\* os.path.expanduser("~"): $HOME of the serving process, here /root.
HOME == <<"/">> \o n_root

\* ALLOWED_DIRS = [os.path.expanduser("~"), "/tmp"], as character strings.
ALLOWED_DIRS == <<HOME, <<"/">> \o n_tmp>>

\* MAX_FILE_SIZE = 1024 * 1024
MAX_FILE_SIZE == 1048576

(***************************************************************************)
(* posixpath: isabs, join, normpath, abspath                               *)
(***************************************************************************)
\* path.startswith('/'): the first segment is empty and another follows.
isabs(segs) == Len(segs) >= 2 /\ segs[1] = EMPTY

\* posixpath.join(cwdsegs, segs) for a relative path segs: cwd, a '/' unless
\* cwd ends with one, then the path.  cwdsegs is os.getcwd() split on '/'.
join(cwdsegs, segs) ==
    IF Last(cwdsegs) = EMPTY THEN Front(cwdsegs) \o segs
    ELSE cwdsegs \o segs

\* The loop of posixpath.normpath over comps, new_comps being built.
RECURSIVE NormLoop(_, _, _)
NormLoop(comps, new_comps, initial_slashes) ==
    IF Len(comps) = 0 THEN new_comps
    ELSE LET comp == Head(comps)
             rest == Tail(comps)
         IN IF comp = EMPTY \/ comp = DOT
            THEN NormLoop(rest, new_comps, initial_slashes)
            ELSE IF \/ comp # DOTDOT
                    \/ (initial_slashes = 0 /\ Len(new_comps) = 0)
                    \/ (Len(new_comps) > 0 /\ Last(new_comps) = DOTDOT)
            THEN NormLoop(rest, Append(new_comps, comp), initial_slashes)
            ELSE IF Len(new_comps) > 0
            THEN NormLoop(rest, Front(new_comps), initial_slashes)
            ELSE NormLoop(rest, new_comps, initial_slashes)

\* initial_slashes of posixpath.normpath: 0, 1, or 2 for exactly two
\* leading slashes (POSIX keeps "//x" apart from "/x").
InitialSlashes(segs) ==
    IF ~isabs(segs) THEN 0
    ELSE IF /\ Len(segs) >= 3 /\ segs[2] = EMPTY
            /\ ~(Len(segs) >= 4 /\ segs[3] = EMPTY)
    THEN 2
    ELSE 1

\* posixpath.normpath, as the character string it returns.
normpath(segs) ==
    IF segs = <<EMPTY>> THEN DOT
    ELSE LET initial_slashes == InitialSlashes(segs)
             comps == NormLoop(segs, <<>>, initial_slashes)
             path == Rep(initial_slashes, <<"/">>) \o Join(comps)
         IN IF path = <<>> THEN DOT ELSE path

\* The components of normpath(segs), for comparing paths by component.
normcomps(segs) == NormLoop(segs, <<>>, InitialSlashes(segs))

\* os.path.abspath(path) with the process's working directory c.
abspath(segs, c) ==
    IF isabs(segs) THEN normpath(segs) ELSE normpath(join(c, segs))

abscomps(segs, c) ==
    IF isabs(segs) THEN normcomps(segs) ELSE normcomps(join(c, segs))

(***************************************************************************)
(* The sandbox guard (lines 115-118)                                       *)
(***************************************************************************)
\* _is_path_allowed: abspath, then any(path.startswith(allowed_dir)).
IsPathAllowed(segs, c) ==
    \E i \in 1..Len(ALLOWED_DIRS) : StartsWith(abspath(segs, c), ALLOWED_DIRS[i])

(***************************************************************************)
(* Byte strings and texts                                                  *)
(*                                                                         *)
(* A byte string is [rep, tail]: rep copies of the byte FILL followed by   *)
(* the bytes of tail; it is canonical when tail does not start with FILL.  *)
(* A decoded text is [rep, tail] likewise, of code points.  A base64 text  *)
(* is [rep, tail]: rep copies of the four characters that encode three     *)
(* FILL bytes, followed by the characters of tail.                         *)
(***************************************************************************)
FILL == 65

RECURSIVE LeadingFill(_)
LeadingFill(s) ==
    IF Len(s) > 0 /\ Head(s) = FILL THEN 1 + LeadingFill(Tail(s)) ELSE 0

Canon(b) ==
    LET k == LeadingFill(b.tail)
    IN [rep |-> b.rep + k, tail |-> SubSeq(b.tail, k + 1, Len(b.tail))]

\* len(content)
Size(b) == b.rep + Len(b.tail)

(***************************************************************************)
(* base64.b64encode / b64decode (line 213)                                 *)
(***************************************************************************)
B64Alphabet ==
    <<"A", "B", "C", "D", "E", "F", "G", "H", "I", "J", "K", "L", "M", "N", "O", "P",
      "Q", "R", "S", "T", "U", "V", "W", "X", "Y", "Z", "a", "b", "c", "d", "e", "f",
      "g", "h", "i", "j", "k", "l", "m", "n", "o", "p", "q", "r", "s", "t", "u", "v",
      "w", "x", "y", "z", "0", "1", "2", "3", "4", "5", "6", "7", "8", "9", "+", "/">>

B64Pad == "="

B64Char(i) == B64Alphabet[i + 1]

B64Index(ch) == CHOOSE i \in 0..63 : B64Alphabet[i + 1] = ch

\* One group of up to three bytes to four characters.
B64Group(g) ==
    IF Len(g) = 3
    THEN <<B64Char(g[1] \div 4),
           B64Char((g[1] % 4) * 16 + g[2] \div 16),
           B64Char((g[2] % 16) * 4 + g[3] \div 64),
           B64Char(g[3] % 64)>>
    ELSE IF Len(g) = 2
    THEN <<B64Char(g[1] \div 4),
           B64Char((g[1] % 4) * 16 + g[2] \div 16),
           B64Char((g[2] % 16) * 4),
           B64Pad>>
    ELSE <<B64Char(g[1] \div 4),
           B64Char((g[1] % 4) * 16),
           B64Pad,
           B64Pad>>

RECURSIVE B64EncodeSeq(_)
B64EncodeSeq(bytes) ==
    IF Len(bytes) = 0 THEN <<>>
    ELSE IF Len(bytes) <= 3 THEN B64Group(bytes)
    ELSE B64Group(SubSeq(bytes, 1, 3)) \o B64EncodeSeq(SubSeq(bytes, 4, Len(bytes)))

\* A plausible bug: the last, partial group is dropped instead of padded.
B64EncodeTruncating(b) ==
    LET rest == Rep(b.rep % 3, <<FILL>>) \o b.tail
    IN [rep |-> b.rep \div 3,
        tail |-> B64EncodeSeq(SubSeq(rest, 1, 3 * (Len(rest) \div 3)))]

\* base64.b64encode(content).decode('utf-8'): the whole groups of FILL bytes
\* stay a run, the rest is encoded group by group.
B64Encode(b) ==
    [rep |-> b.rep \div 3,
     tail |-> B64EncodeSeq(Rep(b.rep % 3, <<FILL>>) \o b.tail)]

\* Four characters back to up to three bytes.
B64Ungroup(q) ==
    LET i1 == B64Index(q[1])
        i2 == B64Index(q[2])
        b1 == i1 * 4 + i2 \div 16
    IN IF q[3] = B64Pad THEN <<b1>>
       ELSE LET i3 == B64Index(q[3])
                b2 == (i2 % 16) * 16 + i3 \div 4
            IN IF q[4] = B64Pad THEN <<b1, b2>>
               ELSE <<b1, b2, (i3 % 4) * 64 + B64Index(q[4])>>

RECURSIVE B64DecodeSeq(_)
B64DecodeSeq(chars) ==
    IF Len(chars) = 0 THEN <<>>
    ELSE B64Ungroup(SubSeq(chars, 1, 4)) \o B64DecodeSeq(SubSeq(chars, 5, Len(chars)))

\* base64.b64decode, what a client applies to the content field.
B64Decode(t) == Canon([rep |-> 3 * t.rep, tail |-> B64DecodeSeq(t.tail)])

(***************************************************************************)
(* UTF-8 decoding (the text-mode read of line 208-209, and line 225)       *)
(***************************************************************************)
REPLACEMENT == 65533

IsCont(b) == b >= 128 /\ b <= 191

\* Number of continuation bytes a lead byte announces, -1 for no lead byte.
Utf8Need(b) ==
    IF b < 128 THEN 0
    ELSE IF b >= 194 /\ b <= 223 THEN 1
    ELSE IF b >= 224 /\ b <= 239 THEN 2
    ELSE IF b >= 240 /\ b <= 244 THEN 3
    ELSE -1

\* Whether byte c may follow lead byte b as its first continuation byte.
Utf8FirstOk(b, c) ==
    IF b = 224 THEN c >= 160 /\ c <= 191
    ELSE IF b = 237 THEN c >= 128 /\ c <= 159
    ELSE IF b = 240 THEN c >= 144 /\ c <= 191
    ELSE IF b = 244 THEN c >= 128 /\ c <= 143
    ELSE IsCont(c)

\* How many of the n continuation bytes announced by bytes[1] are there.
RECURSIVE Utf8Have(_, _, _)
Utf8Have(bytes, k, n) ==
    IF k >= n \/ Len(bytes) < k + 2 THEN k
    ELSE IF (IF k = 0 THEN Utf8FirstOk(bytes[1], bytes[2]) ELSE IsCont(bytes[k + 2]))
    THEN Utf8Have(bytes, k + 1, n)
    ELSE k

Utf8CodePoint(bytes, n) ==
    IF n = 0 THEN bytes[1]
    ELSE IF n = 1 THEN (bytes[1] - 192) * 64 + (bytes[2] - 128)
    ELSE IF n = 2 THEN (bytes[1] - 224) * 4096 + (bytes[2] - 128) * 64 + (bytes[3] - 128)
    ELSE (bytes[1] - 240) * 262144 + (bytes[2] - 128) * 4096
         + (bytes[3] - 128) * 64 + (bytes[4] - 128)

\* Whether bytes.decode('utf-8') with errors='strict' succeeds.
RECURSIVE Utf8Valid(_)
Utf8Valid(bytes) ==
    IF Len(bytes) = 0 THEN TRUE
    ELSE LET n == Utf8Need(bytes[1])
         IN /\ n >= 0
            /\ Utf8Have(bytes, 0, n) = n
            /\ Utf8Valid(SubSeq(bytes, n + 2, Len(bytes)))

\* bytes.decode('utf-8', errors='replace'): each maximal invalid part becomes
\* U+FFFD.  On valid input this is the strict decoding.
RECURSIVE Utf8DecodeReplace(_)
Utf8DecodeReplace(bytes) ==
    IF Len(bytes) = 0 THEN <<>>
    ELSE LET n == Utf8Need(bytes[1])
             k == IF n < 0 THEN 0 ELSE Utf8Have(bytes, 0, n)
         IN IF n >= 0 /\ k = n
            THEN <<Utf8CodePoint(bytes, n)>> \o Utf8DecodeReplace(SubSeq(bytes, n + 2, Len(bytes)))
            ELSE <<REPLACEMENT>> \o Utf8DecodeReplace(SubSeq(bytes, k + 2, Len(bytes)))

\* Universal newlines of a text-mode read: "\r\n" and "\r" become "\n".
RECURSIVE Newlines(_)
Newlines(cps) ==
    IF Len(cps) = 0 THEN <<>>
    ELSE IF cps[1] = 13
    THEN IF Len(cps) >= 2 /\ cps[2] = 10
         THEN <<10>> \o Newlines(SubSeq(cps, 3, Len(cps)))
         ELSE <<10>> \o Newlines(Tail(cps))
    ELSE <<cps[1]>> \o Newlines(Tail(cps))

\* content.decode('utf-8', errors='replace') of line 225, on a byte string.
DecodeReplace(b) == [rep |-> b.rep, tail |-> Utf8DecodeReplace(b.tail)]

\* f.read() of a file opened in mode 'r' (locale encoding UTF-8, strict,
\* universal newlines), when it succeeds.
TextRead(b) == [rep |-> b.rep, tail |-> Newlines(Utf8DecodeReplace(b.tail))]

(***************************************************************************)
(* mimetypes.guess_type (lines 205, 272)                                   *)
(***************************************************************************)
\* None
NONE == <<>>

t_text_plain == <<"t", "e", "x", "t", "/", "p", "l", "a", "i", "n">>
t_image_png == <<"i", "m", "a", "g", "e", "/", "p", "n", "g">>
t_application_json == <<"a", "p", "p", "l", "i", "c", "a", "t", "i", "o", "n", "/", "j", "s", "o", "n">>
t_application_json_patch == <<"a", "p", "p", "l", "i", "c", "a", "t", "i", "o", "n", "/", "j", "s", "o", "n", "-", "p", "a", "t", "c", "h", "+", "j", "s", "o", "n">>
t_octet_stream == <<"a", "p", "p", "l", "i", "c", "a", "t", "i", "o", "n", "/", "o", "c", "t", "e", "t", "-", "s", "t", "r", "e", "a", "m">>
p_text == <<"t", "e", "x", "t", "/">>

\* posixpath.splitext(path)[1]: from the last dot of the last segment, unless
\* only dots precede it.
splitext(segs) ==
    LET base == Last(segs)
        dot == RFind(base, ".")
    IN IF dot > 0 /\ \E i \in 1..(dot - 1) : base[i] # "."
       THEN SubSeq(base, dot, Len(base))
       ELSE <<>>

\* types_map: the standard table's entries for the extensions in use, and
\* the host's /etc/mime.types entry for .json-patch.
TypesMap(ext) ==
    CASE ext = <<".", "t", "x", "t">> -> t_text_plain
      [] ext = <<".", "p", "n", "g">> -> t_image_png
      [] ext = <<".", "j", "s", "o", "n">> -> t_application_json
      [] ext = <<".", "j", "s", "o", "n", "-", "p", "a", "t", "c", "h">> -> t_application_json_patch
      [] OTHER -> NONE

\* mimetypes.guess_type(path)[0]
guess_type(segs) == TypesMap(splitext(segs))

\* A plausible bug: only the exact type application/json counts as JSON.
IsBinaryExactJson(mime_type) ==
    /\ mime_type # NONE
    /\ ~StartsWith(mime_type, p_text)
    /\ mime_type # t_application_json

\* is_binary = mime_type and not mime_type.startswith(('text/',
\* 'application/json'))   (line 206)
IsBinary(mime_type) ==
    /\ mime_type # NONE
    /\ ~(StartsWith(mime_type, p_text) \/ StartsWith(mime_type, t_application_json))

(***************************************************************************)
(* The filesystem the handlers read                                        *)
(*                                                                         *)
(* fs maps the path of each existing node (the sequence of names from the  *)
(* root, <<>> for the root) to [kind, r, x, data, mtime, atime]: r is the  *)
(* read permission of the serving user, x the search permission of a       *)
(* directory, mtime and atime the times of last modification and access.   *)
(* mount is the access-time option the filesystem is mounted with,         *)
(* started the filesystem as it was when the server started.               *)
(* A symbolic link is a node of kind "link" with the path it names in      *)
(* target.  An operation returns [err, val] with err the name of the       *)
(* exception Python raises, "" for none.                                   *)
(***************************************************************************)
\* st_size of a directory (one block)
DIR_SIZE == 4096

NoBytes == [rep |-> 0, tail |-> <<>>]

Dir(r, x) ==
    [kind |-> "dir", r |-> r, x |-> x, data |-> NoBytes, mtime |-> 1, atime |-> 1]

File(r, data, mtime) ==
    [kind |-> "file", r |-> r, x |-> FALSE, data |-> data, mtime |-> mtime, atime |-> mtime]

Link(target) ==
    [kind |-> "link", r |-> TRUE, x |-> FALSE, data |-> NoBytes, mtime |-> 1, atime |-> 1,
     target |-> target]

Parent(node) == IF Len(node) = 0 THEN node ELSE Front(node)

\* The symbolic links one resolution follows before the kernel gives up
\* (ELOOP, which Python raises as a plain OSError).
MaxLinks == 2

\* Path resolution from node cur over the remaining segments, with fuel
\* links still to follow; every link met is followed, the last one too.
RECURSIVE WalkLinks(_, _, _, _)
WalkLinks(f, cur, segs, fuel) ==
    IF Len(segs) = 0 THEN [err |-> "", val |-> cur]
    ELSE IF f[cur].kind # "dir" THEN [err |-> "NotADirectoryError", val |-> cur]
    ELSE LET seg == Head(segs)
             next == Append(cur, seg)
         IN IF seg = EMPTY THEN WalkLinks(f, cur, Tail(segs), fuel)
            ELSE IF ~f[cur].x THEN [err |-> "PermissionError", val |-> cur]
            ELSE IF seg = DOT THEN WalkLinks(f, cur, Tail(segs), fuel)
            ELSE IF seg = DOTDOT THEN WalkLinks(f, Parent(cur), Tail(segs), fuel)
            ELSE IF next \notin DOMAIN f
            THEN [err |-> "FileNotFoundError", val |-> cur]
            ELSE IF f[next].kind = "link"
            THEN IF fuel = 0 THEN [err |-> "OSError", val |-> cur]
                 ELSE WalkLinks(f,
                                IF isabs(f[next].target) THEN <<>> ELSE cur,
                                f[next].target \o Tail(segs),
                                fuel - 1)
            ELSE WalkLinks(f, next, Tail(segs), fuel)

WalkFrom(f, cur, segs) == WalkLinks(f, cur, segs, MaxLinks)

\* Resolution of a path as the kernel does it: from the root for an absolute
\* path, from the working directory c otherwise; "" does not resolve.
Walk(f, segs, c) ==
    IF segs = <<EMPTY>> THEN [err |-> "FileNotFoundError", val |-> <<>>]
    ELSE IF isabs(segs) THEN WalkFrom(f, <<>>, segs)
    ELSE WalkFrom(f, normcomps(c), segs)

\* os.stat(path): needs no permission on the node itself.
os_stat(f, segs, c) ==
    LET w == Walk(f, segs, c)
    IN IF w.err # ""
       THEN [err |-> w.err, val |-> [st_size |-> 0, st_mtime |-> 0, st_atime |-> 0]]
       ELSE [err |-> "",
             val |-> [st_size |-> IF f[w.val].kind = "dir" THEN DIR_SIZE
                                  ELSE Size(f[w.val].data),
                      st_mtime |-> f[w.val].mtime,
                      st_atime |-> f[w.val].atime]]

\* os.path.isdir / os.path.isfile: a stat whose errors mean False.
os_path_isdir(f, segs, c) ==
    LET w == Walk(f, segs, c) IN w.err = "" /\ f[w.val].kind = "dir"

os_path_isfile(f, segs, c) ==
    LET w == Walk(f, segs, c) IN w.err = "" /\ f[w.val].kind = "file"

\* The names in a directory, in the one order the directory gives them.
Children(f, node) ==
    {n[Len(n)] : n \in {m \in DOMAIN f : Len(m) = Len(node) + 1 /\ Front(m) = node}}

RECURSIVE SeqOf(_)
SeqOf(S) ==
    IF S = {} THEN <<>>
    ELSE LET first == CHOOSE n \in S : TRUE
         IN <<first>> \o SeqOf(S \ {first})

\* os.listdir(path)
os_listdir(f, segs, c) ==
    LET w == Walk(f, segs, c)
    IN IF w.err # "" THEN [err |-> w.err, val |-> <<>>]
       ELSE IF f[w.val].kind # "dir" THEN [err |-> "NotADirectoryError", val |-> <<>>]
       ELSE IF ~f[w.val].r THEN [err |-> "PermissionError", val |-> <<>>]
       ELSE [err |-> "", val |-> SeqOf(Children(f, w.val))]

\* open(path, mode) for reading, then f.read(): the bytes of the file.
os_open(f, segs, c) ==
    LET w == Walk(f, segs, c)
    IN IF w.err # "" THEN [err |-> w.err, val |-> NoBytes]
       ELSE IF ~f[w.val].r THEN [err |-> "PermissionError", val |-> NoBytes]
       ELSE IF f[w.val].kind = "dir" THEN [err |-> "IsADirectoryError", val |-> NoBytes]
       ELSE [err |-> "", val |-> f[w.val].data]

\* The time of the requests, later than every time in the filesystem the
\* server starts on.
Now == 9

\* A plausible bug: reading a node also counts as modifying it.
TouchModifying(f, nodes) ==
    [n \in DOMAIN f |->
        IF n \in nodes THEN [f[n] EXCEPT !.atime = Now, !.mtime = Now] ELSE f[n]]

\* What read(2) and getdents(2) do to the access time of the nodes read
\* under relatime: it moves to now unless it is already later than the
\* modification time.
Touch(f, nodes) ==
    [n \in DOMAIN f |->
        IF n \in nodes /\ f[n].atime <= f[n].mtime
        THEN [f[n] EXCEPT !.atime = Now]
        ELSE f[n]]

\* The nodes a handler has read, from the operations it did: the file of
\* each f.read(), the directory of each os.listdir that succeeded.
NodesRead(f, ops, c) ==
    {Walk(f, ops[i].path, c).val :
        i \in {j \in 1..Len(ops) :
                 \/ ops[j].op = "read"
                 \/ ops[j].op = "listdir" /\ os_listdir(f, ops[j].path, c).err = ""}}

\* The filesystem after a handler that did ops.
AfterOps(f, ops, c, m) ==
    IF m = "relatime" THEN Touch(f, NodesRead(f, ops, c)) ELSE f

(***************************************************************************)
(* Responses                                                               *)
(*                                                                         *)
(* status 0 stands for no response at all: the handler died of an          *)
(* exception nobody caught (exc), before anything was written; the server  *)
(* logs it and closes the connection.                                      *)
(***************************************************************************)
NoJson == [none |-> TRUE]

NoResponse ==
    [status |-> 0, cors |-> FALSE, ctype |-> "", hasbody |-> FALSE,
     json |-> NoJson, message |-> "", exc |-> "none"]

\* _set_headers() (lines 23-29) followed by wfile.write(json.dumps(body))
Json200(body) ==
    [status |-> 200, cors |-> TRUE, ctype |-> "application/json", hasbody |-> TRUE,
     json |-> body, message |-> "", exc |-> "none"]

\* _set_headers() alone
Empty200 ==
    [status |-> 200, cors |-> TRUE, ctype |-> "application/json", hasbody |-> FALSE,
     json |-> NoJson, message |-> "", exc |-> "none"]

\* BaseHTTPRequestHandler.send_error(code, message): an HTML error page,
\* with none of the headers of _set_headers.
send_error(code, message) ==
    [status |-> code, cors |-> FALSE, ctype |-> "text/html;charset=utf-8",
     hasbody |-> TRUE, json |-> NoJson, message |-> message, exc |-> "none"]

\* An exception that leaves the handler.
Raised(exc) == [NoResponse EXCEPT !.exc = exc]

Out(r, ops) == [resp |-> r, io |-> ops]

Op(name, segs) == [op |-> name, path |-> segs]

\* The body of a sandbox denial (lines 130-133, 186-189, 264-267)
DeniedBody == [error |-> "Path not allowed", allowed_dirs |-> ALLOWED_DIRS]

(***************************************************************************)
(* Request bodies                                                          *)
(*                                                                         *)
(* params is [kind, haspath, pathtype, path]: kind is what json.loads      *)
(* returned ("object", "array", "string", "scalar" for a number, a boolean *)
(* or null); haspath is the value of '"path" in params' where that is      *)
(* defined; pathtype and path describe params["path"] of an object.        *)
(***************************************************************************)
\* A plausible bug: a missing path is answered like a domain error.
MissingPathAs200 ==
    Json200([error |-> "Path parameter is required"])

\* send_error(400, "Path parameter is required")  (lines 123, 179, 257)
MissingPath == send_error(400, "Path parameter is required")

\* What the first lines of a handler do before the guard has a string to
\* test (lines 122-128): "go" when they pass, or the response that ends the
\* handler.
ParamStep(params) ==
    IF params.kind = "scalar" THEN [go |-> FALSE, resp |-> Raised("TypeError")]
    ELSE IF ~params.haspath THEN [go |-> FALSE, resp |-> MissingPath]
    ELSE IF params.kind # "object" THEN [go |-> FALSE, resp |-> Raised("TypeError")]
    ELSE IF params.pathtype # "string" THEN [go |-> FALSE, resp |-> Raised("TypeError")]
    ELSE [go |-> TRUE, resp |-> NoResponse]

(***************************************************************************)
(* list_directory (lines 120-174)                                          *)
(***************************************************************************)
\* A plausible bug: only the permission failure of an entry is skipped.
SkippedErrorsPermissionOnly == {"PermissionError"}

\* except (PermissionError, FileNotFoundError): pass  (lines 153-155)
SkippedErrors == {"PermissionError", "FileNotFoundError"}

\* The loop of lines 140-155 over the entries left, result and the
\* operations done so far being built; exc is an exception the inner
\* except does not catch.
RECURSIVE ListLoop(_, _, _, _, _, _)
ListLoop(f, c, path, entries, result, ops) ==
    IF Len(entries) = 0 THEN [exc |-> "", result |-> result, io |-> ops]
    ELSE LET entry == Head(entries)
             full_path == join(path, <<entry>>)
             st == os_stat(f, full_path, c)
             ops1 == Append(ops, Op("stat", full_path))
         IN IF st.err \in SkippedErrors
            THEN ListLoop(f, c, path, Tail(entries), result, ops1)
            ELSE IF st.err # ""
            THEN [exc |-> st.err, result |-> result, io |-> ops1]
            ELSE ListLoop(f, c, path, Tail(entries),
                          Append(result,
                                 [name |-> entry,
                                  type |-> IF os_path_isdir(f, full_path, c)
                                           THEN "directory" ELSE "file",
                                  size |-> st.val.st_size,
                                  modified |-> st.val.st_mtime,
                                  path |-> full_path]),
                          Append(ops1, Op("stat", full_path)))

\* The except clauses of lines 163-174.
ListError(exc, path) ==
    IF exc \in {"FileNotFoundError", "NotADirectoryError"}
    THEN Json200([error |-> "Directory not found or not a directory", path |-> path])
    ELSE IF exc = "PermissionError"
    THEN Json200([error |-> "Permission denied", path |-> path])
    ELSE Raised(exc)

handle_list_directory(params, f, c) ==
    LET pre == ParamStep(params)
        path == params.path
    IN IF ~pre.go THEN Out(pre.resp, <<>>)
       ELSE IF ~IsPathAllowed(path, c) THEN Out(Json200(DeniedBody), <<>>)
       ELSE LET ls == os_listdir(f, path, c)
                ops == <<Op("listdir", path)>>
            IN IF ls.err # "" THEN Out(ListError(ls.err, path), ops)
               ELSE LET loop == ListLoop(f, c, path, ls.val, <<>>, ops)
                    IN IF loop.exc # "" THEN Out(ListError(loop.exc, path), loop.io)
                       ELSE Out(Json200([path |-> path,
                                         entries |-> loop.result,
                                         count |-> Len(loop.result)]),
                                loop.io)

(***************************************************************************)
(* read_file (lines 176-252)                                               *)
(***************************************************************************)
\* The except clauses of lines 235-252.
ReadError(exc, path) ==
    IF exc = "FileNotFoundError"
    THEN Json200([error |-> "File not found", path |-> path])
    ELSE IF exc = "PermissionError"
    THEN Json200([error |-> "Permission denied", path |-> path])
    ELSE IF exc = "IsADirectoryError"
    THEN Json200([error |-> "Path is a directory, not a file", path |-> path])
    ELSE Raised(exc)

\* file_size > MAX_FILE_SIZE  (line 195)
TooLarge(file_size) == file_size > MAX_FILE_SIZE

\* Lines 208-233: open, read, and the response for the content read.
ReadContent(f, c, path, file_size, ops) ==
    LET mime_type == guess_type(path)
        is_binary == IsBinary(mime_type)
        mode == IF is_binary THEN "rb" ELSE "r"
        opened == os_open(f, path, c)
        ops1 == Append(ops, Op(IF is_binary THEN "open_rb" ELSE "open_r", path))
        ops2 == Append(ops1, Op("read", path))
    IN IF opened.err # "" THEN Out(ReadError(opened.err, path), ops1)
       ELSE IF mode = "r" /\ ~Utf8Valid(opened.val.tail)
       THEN Out(ReadError("UnicodeDecodeError", path), ops2)
       ELSE LET content == IF mode = "rb"
                           THEN [type |-> "bytes", val |-> opened.val]
                           ELSE [type |-> "str", val |-> TextRead(opened.val)]
            IN IF is_binary
               THEN Out(Json200([path |-> path,
                                 content_type |-> IF mime_type # NONE THEN mime_type
                                                  ELSE t_octet_stream,
                                 encoding |-> "base64",
                                 size |-> file_size,
                                 content |-> B64Encode(content.val)]),
                        ops2)
               ELSE Out(Json200([path |-> path,
                                 content_type |-> IF mime_type # NONE THEN mime_type
                                                  ELSE t_text_plain,
                                 encoding |-> "utf-8",
                                 size |-> file_size,
                                 content |-> IF content.type = "bytes"
                                             THEN DecodeReplace(content.val)
                                             ELSE content.val]),
                        ops2)

handle_read_file(params, f, c) ==
    LET pre == ParamStep(params)
        path == params.path
    IN IF ~pre.go THEN Out(pre.resp, <<>>)
       ELSE IF ~IsPathAllowed(path, c) THEN Out(Json200(DeniedBody), <<>>)
       ELSE LET st == os_stat(f, path, c)
                file_size == st.val.st_size
                ops == <<Op("getsize", path)>>
            IN IF st.err # "" THEN Out(ReadError(st.err, path), ops)
               ELSE IF TooLarge(file_size)
               THEN Out(Json200([error |-> "File too large to read",
                                 path |-> path,
                                 size |-> file_size,
                                 max_size |-> MAX_FILE_SIZE]),
                        ops)
               ELSE ReadContent(f, c, path, file_size, ops)

(***************************************************************************)
(* get_file_info (lines 254-301)                                           *)
(***************************************************************************)
\* The except clauses of lines 288-301.
InfoError(exc, path) ==
    IF exc = "FileNotFoundError"
    THEN Json200([path |-> path, exists |-> FALSE, error |-> "File not found"])
    ELSE IF exc = "PermissionError"
    THEN Json200([path |-> path, exists |-> TRUE, error |-> "Permission denied"])
    ELSE Raised(exc)

handle_get_file_info(params, f, c) ==
    LET pre == ParamStep(params)
        path == params.path
    IN IF ~pre.go THEN Out(pre.resp, <<>>)
       ELSE IF ~IsPathAllowed(path, c) THEN Out(Json200(DeniedBody), <<>>)
       ELSE LET st == os_stat(f, path, c)
                ops == <<Op("stat", path)>>
            IN IF st.err # "" THEN Out(InfoError(st.err, path), ops)
               ELSE Out(Json200([path |-> path,
                                 exists |-> TRUE,
                                 is_file |-> os_path_isfile(f, path, c),
                                 is_dir |-> os_path_isdir(f, path, c),
                                 size |-> st.val.st_size,
                                 created |-> st.val.st_mtime,
                                 modified |-> st.val.st_mtime,
                                 accessed |-> st.val.st_atime,
                                 mime_type |-> guess_type(path)]),
                        ops \o <<Op("stat", path), Op("stat", path)>>)

(***************************************************************************)
(* The manifest and the router (lines 31-113)                              *)
(*                                                                         *)
(* A request is [method, path, wire, params].  path is self.path split on  *)
(* '/', its segments plain strings (they are only compared whole).  wire   *)
(* is what the body on the wire is: "nolength" without a Content-Length    *)
(* header, "notutf8" bytes that do not decode, "malformed" text that is    *)
(* not JSON, "json" otherwise, and then params is the parsed value.        *)
(***************************************************************************)
Param(name, description) ==
    [name |-> name, description |-> description, type |-> "string", required |-> TRUE]

\* The manifest of do_GET (lines 38-88)
Manifest ==
    [protocol |-> [schema |-> "mcp", version |-> "0.1.0"],
     server |-> [name |-> "File Browser MCP Server",
                 version |-> "1.0.0",
                 description |-> "Browse and access files on the host system",
                 vendor |-> "MCP Server Builder",
                 host |-> "0.0.0.0:8000"],
     tools |-> <<[name |-> "list_directory",
                  description |-> "List files and directories in a specified path",
                  parameters |-> <<Param("path", "Directory path to list")>>],
                 [name |-> "read_file",
                  description |-> "Read the contents of a file",
                  parameters |-> <<Param("path", "File path to read")>>],
                 [name |-> "get_file_info",
                  description |-> "Get metadata about a file",
                  parameters |-> <<Param("path", "File path to analyze")>>]>>]

RECURSIVE LStrip(_)
LStrip(segs) ==
    IF Len(segs) > 1 /\ Head(segs) = "" THEN LStrip(Tail(segs)) ELSE segs

RECURSIVE RStrip(_)
RStrip(segs) ==
    IF Len(segs) > 1 /\ Last(segs) = "" THEN RStrip(Front(segs)) ELSE segs

\* A plausible bug: the route is the last segment of the path.
TrailingSegment(segs) == <<Last(segs)>>

\* self.path.strip("/")  (line 104): every leading and trailing '/' goes,
\* those inside stay.
StripSlashes(segs) == RStrip(LStrip(segs))

\* do_GET (lines 34-91)
GetResponse(r) ==
    IF r.path = <<"", "">> \/ r.path = <<"">>
    THEN Json200(Manifest)
    ELSE send_error(404, "Not Found")

\* do_POST (lines 93-113): the response, the filesystem operations done and
\* the handler entered ("none" when none is).
PostResult(r, f, c) ==
    IF r.wire = "nolength" THEN [out |-> Out(Raised("TypeError"), <<>>), called |-> "none"]
    ELSE IF r.wire = "notutf8"
    THEN [out |-> Out(Raised("UnicodeDecodeError"), <<>>), called |-> "none"]
    ELSE IF r.wire = "malformed"
    THEN [out |-> Out(send_error(400, "Invalid JSON"), <<>>), called |-> "none"]
    ELSE LET tool_path == StripSlashes(r.path)
         IN IF tool_path = <<"list_directory">>
            THEN [out |-> handle_list_directory(r.params, f, c), called |-> "list_directory"]
            ELSE IF tool_path = <<"read_file">>
            THEN [out |-> handle_read_file(r.params, f, c), called |-> "read_file"]
            ELSE IF tool_path = <<"get_file_info">>
            THEN [out |-> handle_get_file_info(r.params, f, c), called |-> "get_file_info"]
            ELSE [out |-> Out(send_error(404, "Tool not found"), <<>>), called |-> "none"]

(***************************************************************************)
(* The filesystems the server is run on                                    *)
(***************************************************************************)
n_sub == <<"s", "u", "b">>
n_x == <<"x">>

Bytes(rep, tail) == Canon([rep |-> rep, tail |-> tail])

\* /tmp with five files and a directory, /root empty, and outside the
\* allowed roots /etc/p and /tmpx/s.txt.
BaseFs ==
    (<<>> :> Dir(TRUE, TRUE))
    @@ (<<n_tmp>> :> Dir(TRUE, TRUE))
    @@ (<<n_tmp, n_a_txt>> :> File(TRUE, Bytes(0, <<104, 105, 10>>), 2))
    @@ (<<n_tmp, n_b_png>> :> File(TRUE, Bytes(0, <<137, 80, 78, 71>>), 2))
    @@ (<<n_tmp, n_c_json>> :> File(TRUE, Bytes(0, <<123, 125>>), 2))
    @@ (<<n_tmp, n_d_jp>> :> File(TRUE, Bytes(0, <<91, 93>>), 2))
    @@ (<<n_tmp, n_e>> :> File(TRUE, Bytes(0, <<0>>), 2))
    @@ (<<n_tmp, n_sub>> :> Dir(TRUE, TRUE))
    @@ (<<n_tmp, n_sub, n_e>> :> File(TRUE, Bytes(1, <<>>), 2))
    @@ (<<n_root>> :> Dir(TRUE, TRUE))
    @@ (<<n_etc>> :> Dir(TRUE, TRUE))
    @@ (<<n_etc, n_e>> :> File(TRUE, Bytes(0, <<120>>), 2))
    @@ (<<n_tmpx>> :> Dir(TRUE, TRUE))
    @@ (<<n_tmpx, n_s_txt>> :> File(TRUE, Bytes(0, <<49>>), 2))

\* f with the node at path replaced, and f without the nodes under path.
With(f, path, node) == [f EXCEPT ![path] = node]

Without(f, path) ==
    [n \in {m \in DOMAIN f : ~(Len(m) >= Len(path) /\ SubSeq(m, 1, Len(path)) = path)} |-> f[n]]

FileNames == {n_a_txt, n_b_png, n_c_json, n_d_jp, n_e}

\* File contents: short ones, valid and invalid as UTF-8, and long ones on
\* both sides of the size ceiling.
Contents ==
    {Bytes(0, <<>>),
     Bytes(0, <<195, 169>>),
     Bytes(0, <<13, 10>>),
     Bytes(0, <<255>>),
     Bytes(MAX_FILE_SIZE, <<>>),
     Bytes(MAX_FILE_SIZE - 1, <<255>>),
     Bytes(MAX_FILE_SIZE + 1, <<>>),
     Bytes(MAX_FILE_SIZE, <<0>>)}

DirModes == {Dir(r, x) : r, x \in BOOLEAN}

\* Filesystems that differ from BaseFs in one place under /tmp: the content
\* of a text-named, a binary-named or an unnamed file, a file unreadable or
\* gone, the permissions of a directory.
InsideVariants ==
    {With(BaseFs, <<n_tmp, name>>, File(TRUE, data, 2)) :
        name \in {n_a_txt, n_b_png, n_e}, data \in Contents}
    \cup {With(BaseFs, <<n_tmp, name>>, File(FALSE, BaseFs[<<n_tmp, name>>].data, 2)) :
            name \in FileNames}
    \cup {Without(BaseFs, <<n_tmp, n_a_txt>>)}
    \cup {With(BaseFs, <<n_tmp>>, d) : d \in DirModes}
    \cup {With(BaseFs, <<n_tmp, n_sub>>, d) : d \in DirModes}

\* Filesystems that differ from BaseFs only outside the allowed roots.
OutsideVariants ==
    {With(BaseFs, <<n_tmpx, n_s_txt>>, File(TRUE, Bytes(0, <<50, 50>>), 3)),
     With(BaseFs, <<n_etc, n_e>>, File(FALSE, Bytes(0, <<120>>), 2)),
     Without(BaseFs, <<n_tmpx>>),
     Without(BaseFs, <<n_etc, n_e>>)}

n_l == <<"l">>

\* f with a symbolic link to target added at path.
Symlink(f, path, target) == (path :> Link(target)) @@ f

\* /tmp with three files, a directory and the link /tmp/l.
LinkBase == Without(Without(BaseFs, <<n_tmp, n_c_json>>), <<n_tmp, n_d_jp>>)

\* /tmp/l dangling, naming a file behind a directory that may not be
\* searched, naming itself, and naming a file outside the allowed roots.
LinkVariants ==
    {Symlink(LinkBase, <<n_tmp, n_l>>, <<n_x>>),
     Symlink(With(LinkBase, <<n_tmp, n_sub>>, Dir(TRUE, FALSE)),
             <<n_tmp, n_l>>, <<EMPTY, n_tmp, n_sub, n_e>>),
     Symlink(LinkBase, <<n_tmp, n_l>>, <<n_l>>),
     Symlink(LinkBase, <<n_tmp, n_l>>, <<EMPTY, n_etc, n_e>>)}

FileSystems == {BaseFs} \cup InsideVariants \cup OutsideVariants \cup LinkVariants

\* os.getcwd() of the serving process, split on '/'.
WorkingDirs == {<<EMPTY, n_tmp>>, <<EMPTY, n_etc>>}

(***************************************************************************)
(* The requests clients send                                               *)
(***************************************************************************)
\* Paths asked for: inside the roots, outside them, beside them, through
\* them, relative, and not resolving.
FilePaths ==
    {<<EMPTY, n_tmp, name>> : name \in FileNames}
    \cup {<<EMPTY, n_tmp>>,
          <<EMPTY, n_tmp, EMPTY>>,
          <<EMPTY, n_tmp, n_x>>,
          <<EMPTY, n_tmp, n_sub>>,
          <<EMPTY, n_tmp, n_l>>,
          <<EMPTY, n_tmp, n_sub, n_e>>,
          <<EMPTY, n_tmp, n_a_txt, n_x>>,
          <<EMPTY, n_tmp, n_a_txt, EMPTY>>,
          <<EMPTY, n_tmp, DOTDOT>>,
          <<EMPTY, n_tmp, DOTDOT, n_etc, n_e>>,
          <<EMPTY, n_tmpx, DOTDOT, n_tmp, n_a_txt>>,
          <<EMPTY, EMPTY, n_tmp, n_a_txt>>,
          <<EMPTY, EMPTY>>,
          <<EMPTY, n_etc>>,
          <<EMPTY, n_etc, n_e>>,
          <<EMPTY, n_tmpx>>,
          <<EMPTY, n_tmpx, n_s_txt>>,
          <<EMPTY, n_root>>,
          <<EMPTY, n_root, n_x>>,
          <<n_a_txt>>,
          <<n_e>>,
          <<DOTDOT, n_tmp, n_b_png>>,
          <<DOT>>,
          <<EMPTY>>}

PathParams(path) ==
    [kind |-> "object", haspath |-> TRUE, pathtype |-> "string", path |-> path]

\* Bodies that are JSON but carry no string under "path".
OddParams ==
    {[kind |-> "object", haspath |-> FALSE, pathtype |-> "none", path |-> <<EMPTY>>],
     [kind |-> "object", haspath |-> TRUE, pathtype |-> "number", path |-> <<EMPTY>>],
     [kind |-> "array", haspath |-> FALSE, pathtype |-> "none", path |-> <<EMPTY>>],
     [kind |-> "array", haspath |-> TRUE, pathtype |-> "none", path |-> <<EMPTY>>],
     [kind |-> "string", haspath |-> FALSE, pathtype |-> "none", path |-> <<EMPTY>>],
     [kind |-> "string", haspath |-> TRUE, pathtype |-> "none", path |-> <<EMPTY>>],
     [kind |-> "scalar", haspath |-> FALSE, pathtype |-> "none", path |-> <<EMPTY>>]}

NoParams == [kind |-> "none", haspath |-> FALSE, pathtype |-> "none", path |-> <<EMPTY>>]

ToolNames == {"list_directory", "read_file", "get_file_info"}

\* "/<tool>" for each tool
ToolUrls == {<<"", t>> : t \in ToolNames}

\* Other request paths: the root, the empty path, slashes around a tool's
\* name, a tool's name under a prefix, near misses.
OtherUrls ==
    {<<"", "">>, <<"">>,
     <<"", "", "read_file", "">>,
     <<"read_file">>,
     <<"", "api", "read_file">>,
     <<"", "read_file", "x">>,
     <<"", "read_files">>,
     <<"", "read_file?x=1">>}

Request(method, path, wire, params) ==
    [method |-> method, path |-> path, wire |-> wire, params |-> params]

\* Before the first request
NoRequest == Request("none", <<"">>, "none", NoParams)

\* No exchange remembered: before holds the request, the handler entered
\* and the response of the exchange that preceded the current one where a
\* specification follows requests in pairs.
NoExchange == [req |-> NoRequest, resp |-> NoResponse, called |-> "none"]

Requests ==
    {Request(m, u, "none", NoParams) : m \in {"OPTIONS", "GET"}, u \in ToolUrls \cup OtherUrls}
    \cup {Request("POST", u, w, NoParams) :
            u \in ToolUrls \cup OtherUrls, w \in {"nolength", "notutf8", "malformed"}}
    \cup {Request("POST", u, "json", p) : u \in ToolUrls, p \in OddParams}
    \cup {Request("POST", u, "json", PathParams(path)) : u \in ToolUrls, path \in FilePaths}
    \cup {Request("POST", u, "json", PathParams(<<EMPTY, n_tmp, n_a_txt>>)) : u \in OtherUrls}

(***************************************************************************)
(* The server: one request at a time (HTTPServer.serve_forever, line 308)  *)
(* Here the filesystem is mounted noatime, so reading leaves it as it is;  *)
(* SpecPair below follows pairs of requests under both mount options.      *)
(***************************************************************************)
Init ==
    /\ fs \in FileSystems
    /\ cwd \in WorkingDirs
    /\ pc = "awaiting"
    /\ req = NoRequest
    /\ resp = NoResponse
    /\ io = <<>>
    /\ called = "none"
    /\ mount = "noatime"
    /\ started = fs
    /\ before = NoExchange

\* A request arrives and its do_<METHOD> is about to run.
Receive(R) ==
    /\ pc = "awaiting"
    /\ \E r \in R : req' = r
    /\ pc' = "dispatching"
    /\ resp' = NoResponse
    /\ io' = <<>>
    /\ called' = "none"
    /\ UNCHANGED <<fs, cwd, mount, started, before>>

\* lines 31-32
do_OPTIONS ==
    /\ pc = "dispatching"
    /\ req.method = "OPTIONS"
    /\ resp' = Empty200
    /\ pc' = "awaiting"
    /\ UNCHANGED <<fs, cwd, req, io, called, mount, started, before>>

\* lines 34-91
do_GET ==
    /\ pc = "dispatching"
    /\ req.method = "GET"
    /\ resp' = GetResponse(req)
    /\ pc' = "awaiting"
    /\ UNCHANGED <<fs, cwd, req, io, called, mount, started, before>>

\* lines 93-113
do_POST ==
    /\ pc = "dispatching"
    /\ req.method = "POST"
    /\ LET res == PostResult(req, fs, cwd)
       IN /\ resp' = res.out.resp
          /\ io' = res.out.io
          /\ called' = res.called
          /\ fs' = AfterOps(fs, res.out.io, cwd, mount)
    /\ pc' = "awaiting"
    /\ UNCHANGED <<cwd, req, mount, started, before>>

ReceiveAny == Receive(Requests)

Next == ReceiveAny \/ do_OPTIONS \/ do_GET \/ do_POST

Spec == Init /\ [][Next]_vars

(***************************************************************************)
(* Reading files of every content (the same server, asked only to read)    *)
(***************************************************************************)
\* The longest tail of explicit bytes of a file
MaxTail == 3

\* Byte values: NUL, CR, the fill byte, a continuation byte, a lead byte, and
\* a byte that no UTF-8 text holds.
ByteVals == {0, 13, 65, 169, 195, 255}

RECURSIVE Tails(_)
Tails(n) ==
    IF n = 0 THEN {<<>>}
    ELSE LET shorter == Tails(n - 1)
         IN shorter \cup {Append(t, b) : t \in {u \in shorter : Len(u) = n - 1}, b \in ByteVals}

\* Every content of up to MaxTail bytes, alone or after a run that brings the
\* file to the size ceiling and beyond.
CodecContents ==
    {Bytes(rep, tail) : rep \in {0, MAX_FILE_SIZE - 1}, tail \in Tails(MaxTail)}

CodecFileSystems ==
    {With(BaseFs, <<n_tmp, name>>, File(TRUE, data, 2)) :
        name \in {n_a_txt, n_b_png}, data \in CodecContents}

ReadRequests ==
    {Request("POST", <<"", "read_file">>, "json", PathParams(<<EMPTY, n_tmp, name>>)) :
        name \in {n_a_txt, n_b_png}}

InitRead ==
    /\ fs \in CodecFileSystems
    /\ cwd = <<EMPTY, n_tmp>>
    /\ pc = "awaiting"
    /\ req = NoRequest
    /\ resp = NoResponse
    /\ io = <<>>
    /\ called = "none"
    /\ mount = "noatime"
    /\ started = fs
    /\ before = NoExchange

ReceiveRead == Receive(ReadRequests)

NextRead == ReceiveRead \/ do_POST

SpecRead == InitRead /\ [][NextRead]_vars

(***************************************************************************)
(* Two requests, one after the other (the same server, asked twice, on     *)
(* filesystems mounted with and without access-time updates)               *)
(***************************************************************************)
PairFileSystems ==
    {BaseFs,
     With(BaseFs, <<n_tmp, n_a_txt>>, File(TRUE, Bytes(0, <<255>>), 2)),
     With(BaseFs, <<n_tmp, n_a_txt>>, File(FALSE, Bytes(0, <<104, 105, 10>>), 2)),
     Symlink(LinkBase, <<n_tmp, n_l>>, <<n_a_txt>>)}

PairPaths ==
    {<<EMPTY, n_tmp>>,
     <<EMPTY, n_tmp, n_a_txt>>,
     <<n_a_txt>>,
     <<EMPTY, n_tmp, n_b_png>>,
     <<EMPTY, n_tmp, n_sub>>,
     <<EMPTY, n_tmp, n_sub, n_e>>,
     <<EMPTY, n_tmp, n_l>>,
     <<EMPTY, n_etc, n_e>>}

PairRequests ==
    {Request("POST", u, "json", PathParams(path)) : u \in ToolUrls, path \in PairPaths}

InitPair ==
    /\ fs \in PairFileSystems
    /\ cwd = <<EMPTY, n_tmp>>
    /\ pc = "awaiting"
    /\ req = NoRequest
    /\ resp = NoResponse
    /\ io = <<>>
    /\ called = "none"
    /\ mount \in {"noatime", "relatime"}
    /\ started = fs
    /\ before = NoExchange

\* The first request arrives.
ReceiveFirst ==
    /\ req = NoRequest
    /\ Receive(PairRequests)

\* The second request arrives once the first has been handled; the first
\* exchange is remembered.
ReceiveSecond ==
    /\ pc = "awaiting"
    /\ req # NoRequest
    /\ before = NoExchange
    /\ \E r \in PairRequests : req' = r
    /\ before' = [req |-> req, resp |-> resp, called |-> called]
    /\ pc' = "dispatching"
    /\ resp' = NoResponse
    /\ io' = <<>>
    /\ called' = "none"
    /\ UNCHANGED <<fs, cwd, mount, started>>

NextPair == ReceiveFirst \/ ReceiveSecond \/ do_POST

SpecPair == InitPair /\ [][NextPair]_vars

(***************************************************************************)
(* What the claims speak of                                                *)
(***************************************************************************)
\* The last request has been handled.
Handled == pc = "awaiting" /\ req.method # "none"

\* The last request was a POST that entered a tool handler with a string
\* under "path".
PathCall ==
    /\ Handled
    /\ called \in ToolNames
    /\ ParamStep(req.params).go

ReqPath == req.params.path

\* The allowed roots as components.
RootComps == {<<n_root>>, <<n_tmp>>}

IsPrefix(p, q) == Len(p) <= Len(q) /\ SubSeq(q, 1, Len(p)) = p

\* The node path is an allowed root or below one.
UnderRoot(comps) == \E root \in RootComps : IsPrefix(root, comps)

\* The canonical absolute form of the path is an allowed root or a
\* descendant of one.
Inside(segs, c) == UnderRoot(abscomps(segs, c))

IoOps == {io[i].op : i \in 1..Len(io)}

HasError == "error" \in DOMAIN resp.json

\* The node a path resolves to, when it does.
Resolves(segs) == Walk(fs, segs, cwd).err = ""

NodeOf(segs) == fs[Walk(fs, segs, cwd).val]

(***************************************************************************)
(* C1: for every tool handler and every request whose path lies outside    *)
(* every allowed root, the response is HTTP 200 with the body {error:      *)
(* "Path not allowed", allowed_dirs} and no filesystem operation is done   *)
(* for the request.                                                        *)
(***************************************************************************)
C1_OutsideDeniedWithoutIO ==
    (PathCall /\ ~Inside(ReqPath, cwd))
        => (resp = Json200(DeniedBody) /\ io = <<>>)

(***************************************************************************)
(* C2: the guard allows a path only if its canonical absolute form is an   *)
(* allowed root or a descendant of one; every other path, '..' traversals  *)
(* out of a root and siblings of a root included, is denied.               *)
(***************************************************************************)
C2_GuardAllowsOnlyInside ==
    (pc = "dispatching" /\ req.method = "POST" /\ req.wire = "json"
     /\ ParamStep(req.params).go)
        => (IsPathAllowed(ReqPath, cwd) => Inside(ReqPath, cwd))

(***************************************************************************)
(* C3: for any two filesystems that agree on everything under the allowed  *)
(* roots and differ only outside them, every tool request yields the same  *)
(* response in both.                                                       *)
(***************************************************************************)
\* f and g hold the same nodes at and under the allowed roots, and on the
\* way to them.
AgreeInside(f, g) ==
    /\ \A n \in DOMAIN f \cup DOMAIN g :
          (UnderRoot(n) \/ \E root \in RootComps : IsPrefix(n, root))
              => (n \in DOMAIN f /\ n \in DOMAIN g /\ f[n] = g[n])

C3_NoLeakFromOutside ==
    (Handled /\ called \in ToolNames)
        => \A g \in FileSystems :
              AgreeInside(fs, g) => PostResult(req, g, cwd).out.resp = resp

(***************************************************************************)
(* read_file on a file the guard allows                                    *)
(***************************************************************************)
\* The last request was read_file on a path the guard allows that resolves
\* to a regular file the server may read.
ReadOfFile ==
    /\ PathCall
    /\ called = "read_file"
    /\ IsPathAllowed(ReqPath, cwd)
    /\ Resolves(ReqPath)
    /\ NodeOf(ReqPath).kind = "file"
    /\ NodeOf(ReqPath).r

FileData == NodeOf(ReqPath).data

\* The response is the success payload of read_file.
ReadSuccess ==
    /\ resp.status = 200
    /\ DOMAIN resp.json = {"path", "content_type", "encoding", "size", "content"}

OversizeBody ==
    [error |-> "File too large to read", path |-> ReqPath,
     size |-> Size(FileData), max_size |-> MAX_FILE_SIZE]

(***************************************************************************)
(* C4: read_file on an allowed file of exactly MAX_FILE_SIZE bytes         *)
(* succeeds and returns content; on a file of MAX_FILE_SIZE + 1 bytes or   *)
(* more it returns the "File too large to read" body and the file is never *)
(* opened or read.                                                         *)
(***************************************************************************)
C4_SizeCeiling ==
    ReadOfFile =>
        /\ Size(FileData) = MAX_FILE_SIZE => ReadSuccess
        /\ Size(FileData) > MAX_FILE_SIZE =>
              /\ resp = Json200(OversizeBody)
              /\ IoOps \cap {"open_r", "open_rb", "read"} = {}

(***************************************************************************)
(* C5: read_file classifies a file as binary (encoding "base64") exactly   *)
(* when a MIME type is inferred from the extension and it is neither a     *)
(* text/* type nor the type application/json; in every other case the file *)
(* is text (encoding "utf-8").                                             *)
(***************************************************************************)
\* The claim's test: a type, not text/*, not application/json itself.
BinaryByExactType(mime_type) ==
    /\ mime_type # NONE
    /\ ~StartsWith(mime_type, p_text)
    /\ mime_type # t_application_json

\* The amended test: a type whose name starts with neither "text/" nor
\* "application/json".
BinaryByPrefix(mime_type) ==
    /\ mime_type # NONE
    /\ ~StartsWith(mime_type, p_text)
    /\ ~StartsWith(mime_type, t_application_json)

\* The last request was a read_file that got as far as opening the file.
ReadOpened ==
    /\ PathCall
    /\ called = "read_file"
    /\ IoOps \cap {"open_r", "open_rb"} # {}

\* The original claim: violated by a .json-patch file.
C5_BinaryIffNotTextNotJson ==
    ReadOpened =>
        /\ ("open_rb" \in IoOps) <=> BinaryByExactType(guess_type(ReqPath))
        /\ ReadSuccess =>
              resp.json.encoding = IF BinaryByExactType(guess_type(ReqPath))
                                   THEN "base64" ELSE "utf-8"

\* C5 as amended: binary exactly when a type is inferred whose name starts
\* with neither "text/" nor "application/json"; text in every other case.
C5_BinaryIffNoTextOrJsonPrefix ==
    ReadOpened =>
        /\ ("open_rb" \in IoOps) <=> BinaryByPrefix(guess_type(ReqPath))
        /\ ReadSuccess =>
              resp.json.encoding = IF BinaryByPrefix(guess_type(ReqPath))
                                   THEN "base64" ELSE "utf-8"

\* A file whose type, application/json-patch+json, is not application/json
\* has been read as text.
C5_Witness ==
    /\ ReadOpened
    /\ ReadSuccess
    /\ guess_type(ReqPath) = t_application_json_patch
    /\ resp.json.encoding = "utf-8"

(***************************************************************************)
(* C6: for every allowed file classified as binary and not over the size   *)
(* ceiling, base64-decoding the content field of the read_file response    *)
(* gives back the bytes of the file, the empty file included.              *)
(***************************************************************************)
C6_Base64RoundTrip ==
    (ReadOfFile /\ IsBinary(guess_type(ReqPath)) /\ Size(FileData) <= MAX_FILE_SIZE)
        => /\ ReadSuccess
           /\ resp.json.encoding = "base64"
           /\ resp.json.size = Size(FileData)
           /\ B64Decode(resp.json.content) = FileData

\* A binary file of exactly the ceiling's size, whose last group of bytes
\* needs padding, has been read.
C6_Witness ==
    /\ ReadOfFile
    /\ IsBinary(guess_type(ReqPath))
    /\ Size(FileData) = MAX_FILE_SIZE
    /\ FileData.tail = <<255>>
    /\ ReadSuccess
    /\ Last(resp.json.content.tail) = B64Pad

(***************************************************************************)
(* C7: read_file on an allowed text-classified file never fails because of *)
(* its bytes: for every content it returns a success response with         *)
(* encoding "utf-8" whose content is the bytes decoded with a replacement  *)
(* character for each invalid sequence.                                    *)
(***************************************************************************)
C7_TextNeverFailsOnBytes ==
    (ReadOfFile /\ ~IsBinary(guess_type(ReqPath)) /\ Size(FileData) <= MAX_FILE_SIZE)
        => /\ ReadSuccess
           /\ resp.json.encoding = "utf-8"
           /\ resp.json.content = DecodeReplace(FileData)

(***************************************************************************)
(* C8: every filesystem error raised while a tool handler runs on an       *)
(* allowed path is caught in the handler and answered with HTTP 200 and an *)
(* {error: ...} body; none leaves a handler uncaught.                      *)
(***************************************************************************)
FilesystemErrors ==
    {"FileNotFoundError", "NotADirectoryError", "IsADirectoryError", "PermissionError"}

C8_FilesystemErrorsCaught ==
    (PathCall /\ IsPathAllowed(ReqPath, cwd))
        => resp.exc \notin FilesystemErrors

(***************************************************************************)
(* POST requests and their routes                                          *)
(***************************************************************************)
NonEmptySeg(seg) == seg # ""

\* The segments of a request path that are not empty.
RouteSegs(path) == SelectSeq(path, NonEmptySeg)

\* The path is one name surrounded by any number of slashes: that name,
\* "" for every other path.
OnlySegment(path) ==
    IF Len(RouteSegs(path)) = 1 THEN RouteSegs(path)[1] ELSE ""

\* The last name of the path, "" when it has none.
TrailingRoute(path) ==
    IF Len(RouteSegs(path)) >= 1 THEN Last(RouteSegs(path)) ELSE ""

\* The names of the tools in the manifest.
ManifestToolNames == {Manifest.tools[i].name : i \in 1..Len(Manifest.tools)}

HandledPost == Handled /\ req.method = "POST"

\* A handled POST to /list_directory, /read_file or /get_file_info.
ToolPost == HandledPost /\ OnlySegment(req.path) \in ToolNames

HttpErrorStatus(status) == status >= 400 /\ status <= 599

(***************************************************************************)
(* C9: a JSON parse failure is the only case in which a POST to one of the *)
(* three tool routes is answered with an HTTP error status; every such     *)
(* POST whose body parses as JSON is answered with HTTP 200.               *)
(***************************************************************************)
\* The original claim: violated by a JSON body without "path".
C9_OnlyParseFailureIsHttpError ==
    (ToolPost /\ req.wire = "json") => ~HttpErrorStatus(resp.status)

\* '"path" not in params' is evaluated and true.
PathNotFound ==
    /\ req.wire = "json"
    /\ req.params.kind \in {"object", "array", "string"}
    /\ ~req.params.haspath

\* C9 as amended: a POST to a tool route is answered with an HTTP error
\* status in two cases, both 400: the body does not parse as JSON, or it
\* parses to an object, array or string in which "path" is not found;
\* every other response to such a POST is HTTP 200 with a JSON body, and a
\* POST is left unanswered only by an exception nobody catches.
C9_HttpErrorIffParseFailureOrNoPath ==
    ToolPost =>
        /\ resp.status \in {0, 200, 400}
        /\ resp.status = 400 <=> (req.wire = "malformed" \/ PathNotFound)
        /\ resp.status = 200 => (resp.hasbody /\ resp.ctype = "application/json")
        /\ resp.status = 0 <=> resp.exc # "none"

\* A body that is a JSON object without "path" has been answered 400.
C9_Witness ==
    /\ ToolPost
    /\ req.wire = "json"
    /\ req.params.kind = "object"
    /\ ~req.params.haspath
    /\ resp = send_error(400, "Path parameter is required")

(***************************************************************************)
(* C10: the router dispatches a POST to a tool handler exactly when the    *)
(* trailing route segment of the URL path equals one of the tool names of  *)
(* the manifest of GET / (list_directory, read_file, get_file_info and no  *)
(* others); a POST whose route matches none is answered 404 and a POST     *)
(* with a malformed body 400, both without a handler being invoked.        *)
(***************************************************************************)
\* What the router does with a handled POST whose route is the name route.
RoutedBy(route) ==
    /\ called = IF req.wire = "json" /\ route \in ManifestToolNames
                THEN route ELSE "none"
    /\ (req.wire = "json" /\ route \notin ManifestToolNames)
          => (resp = send_error(404, "Tool not found") /\ io = <<>>)
    /\ req.wire = "malformed"
          => (resp = send_error(400, "Invalid JSON") /\ io = <<>>)

ManifestServed ==
    /\ resp.status = 200
    /\ {resp.json.tools[i].name : i \in 1..Len(resp.json.tools)}
          = {"list_directory", "read_file", "get_file_info"}

\* The original claim: violated by POST /api/read_file.
C10_DispatchIffTrailingSegment ==
    /\ HandledPost => RoutedBy(TrailingRoute(req.path))
    /\ (Handled /\ req.method = "GET" /\ req.path = <<"", "">>) => ManifestServed

\* C10 as amended: the router dispatches a POST exactly when the URL path,
\* its leading and trailing slashes stripped, is one of the tool names of
\* the manifest, so that the name is the path's only segment; the rest of
\* the claim stands.
C10_DispatchIffWholePathIsTool ==
    /\ HandledPost => RoutedBy(OnlySegment(req.path))
    /\ (Handled /\ req.method = "GET" /\ req.path = <<"", "">>) => ManifestServed

\* A POST with a JSON body to /api/read_file has been answered 404 with no
\* handler invoked.
C10_Witness ==
    /\ HandledPost
    /\ req.wire = "json"
    /\ req.path = <<"", "api", "read_file">>
    /\ called = "none"
    /\ resp.status = 404

(***************************************************************************)
(* C11: in every successful list_directory response count is the length    *)
(* of entries and the entries are, in the directory's order, exactly the   *)
(* names whose per-entry stat succeeded; and when the directory can be     *)
(* listed and every entry's stat either succeeds or raises a permission or *)
(* not-found error, the response is successful with as many entries as     *)
(* there are accessible names.                                             *)
(***************************************************************************)
ListCall == PathCall /\ called = "list_directory"

Listing == os_listdir(fs, ReqPath, cwd)

EntryStat(name) == os_stat(fs, join(ReqPath, <<name>>), cwd)

Accessible(name) == EntryStat(name).err = ""

ListSuccess == resp.status = 200 /\ "entries" \in DOMAIN resp.json

EntryNames == [i \in 1..Len(resp.json.entries) |-> resp.json.entries[i].name]

Range(seq) == {seq[i] : i \in 1..Len(seq)}

C11_EntriesAreAccessibleOnes ==
    ListCall =>
        /\ ListSuccess =>
              /\ resp.json.count = Len(resp.json.entries)
              /\ EntryNames = SelectSeq(Listing.val, Accessible)
        /\ ( /\ resp.json # DeniedBody
             /\ Listing.err = ""
             /\ \A name \in Range(Listing.val) :
                    EntryStat(name).err \in {"", "PermissionError", "FileNotFoundError"} )
           => /\ ListSuccess
              /\ resp.json.count = Cardinality({name \in Range(Listing.val) : Accessible(name)})

\* A directory listed with accessible entries and one whose stat raises
\* not-found.
C11_Witness ==
    /\ ListCall
    /\ ListSuccess
    /\ resp.json.count >= 1
    /\ \E name \in Range(Listing.val) : EntryStat(name).err = "FileNotFoundError"

(***************************************************************************)
(* C12: every get_file_info request for an allowed path is answered with a *)
(* body that carries exists and echoes the requested path: exists true     *)
(* with the metadata fields when the stat succeeds, exists false with      *)
(* error "File not found" when the path does not exist, exists true with   *)
(* error "Permission denied" when the stat fails on permissions.           *)
(***************************************************************************)
InfoCall == PathCall /\ called = "get_file_info"

StatOf == os_stat(fs, ReqPath, cwd)

MetadataFields == {"is_file", "is_dir", "size", "created", "modified", "accessed", "mime_type"}

\* No node at the path: a name is missing, or a name on the way is a file.
DoesNotExist == StatOf.err \in {"FileNotFoundError", "NotADirectoryError"}

InfoAllowed == InfoCall /\ Inside(ReqPath, cwd) /\ resp.json # DeniedBody

C12_ExistsFieldAlways ==
    InfoAllowed =>
        /\ resp.status = 200
        /\ "exists" \in DOMAIN resp.json
        /\ resp.json.path = ReqPath
        /\ StatOf.err = "" =>
              resp.json.exists /\ MetadataFields \subseteq DOMAIN resp.json
        /\ DoesNotExist =>
              ~resp.json.exists /\ resp.json.error = "File not found"
        /\ StatOf.err = "PermissionError" =>
              resp.json.exists /\ resp.json.error = "Permission denied"

(***************************************************************************)
(* C13: every response the server sends, whatever the method and the       *)
(* outcome (400 and 404 included), carries Content-Type: application/json  *)
(* and the three CORS headers of _set_headers.                             *)
(***************************************************************************)
ResponseSent == Handled /\ resp.status # 0

C13_JsonAndCorsHeadersAlways ==
    ResponseSent => resp.cors /\ resp.ctype = "application/json"

(***************************************************************************)
(* C14: for every allowed path that is a readable file not over the size   *)
(* ceiling, a get_file_info request followed by a read_file request on it  *)
(* are both answered with a size, the two sizes are equal, and they are    *)
(* the file's size in bytes.                                               *)
(***************************************************************************)
\* Both requests of a pair have been handled.
PairDone == Handled /\ before # NoExchange

InfoThenRead ==
    /\ PairDone
    /\ before.called = "get_file_info"
    /\ called = "read_file"
    /\ before.req.params.path = ReqPath

ReadableFileUnderCeiling ==
    /\ Inside(ReqPath, cwd)
    /\ resp.json # DeniedBody
    /\ Resolves(ReqPath)
    /\ NodeOf(ReqPath).kind = "file"
    /\ NodeOf(ReqPath).r
    /\ Size(NodeOf(ReqPath).data) <= MAX_FILE_SIZE

C14_InfoAndReadSizesAgree ==
    (InfoThenRead /\ ReadableFileUnderCeiling) =>
        /\ before.resp.status = 200
        /\ "size" \in DOMAIN before.resp.json
        /\ resp.status = 200
        /\ "size" \in DOMAIN resp.json
        /\ resp.json.size = before.resp.json.size
        /\ resp.json.size = Size(NodeOf(ReqPath).data)

(***************************************************************************)
(* C15: requests do not interfere: no handler modifies the filesystem (the *)
(* allowed roots and the manifest are constants), so the response to a     *)
(* request that follows another is the response it would get alone on the  *)
(* filesystem the server started on, whatever the other request was.       *)
(***************************************************************************)
\* The response the current request gets when it runs alone.
Alone == PostResult(req, started, cwd).out.resp

C15_RequestsDoNotInterfere ==
    /\ fs = started
    /\ PairDone => resp = Alone

(***************************************************************************)
(* C15, as the code has it: a handler changes nothing in the filesystem    *)
(* but access times, and the response to a request that follows another is *)
(* the response it would get alone except for the accessed value of a      *)
(* get_file_info on the very node the other request read or listed; two    *)
(* requests whose paths name different nodes never interfere.              *)
(***************************************************************************)
SameButAtime(f, g) ==
    /\ DOMAIN f = DOMAIN g
    /\ \A n \in DOMAIN f : [f[n] EXCEPT !.atime = g[n].atime] = g[n]

\* The two requests of the pair name the same node.
SameNode ==
    /\ Walk(started, before.req.params.path, cwd).err = ""
    /\ Walk(started, ReqPath, cwd).err = ""
    /\ Walk(started, before.req.params.path, cwd).val = Walk(started, ReqPath, cwd).val

OnlyAccessedDiffers ==
    /\ called = "get_file_info"
    /\ resp.status = 200
    /\ Alone.status = 200
    /\ "accessed" \in DOMAIN resp.json
    /\ "accessed" \in DOMAIN Alone.json
    /\ [resp EXCEPT !.json.accessed = Alone.json.accessed] = Alone

C15_OnlyAccessTimesInterfere ==
    /\ SameButAtime(fs, started)
    /\ PairDone =>
          \/ resp = Alone
          \/ /\ SameNode
             /\ before.called \in {"read_file", "list_directory"}
             /\ OnlyAccessedDiffers

\* A get_file_info that follows a read of the same node and reports another
\* access time than it would alone.
C15_Witness ==
    /\ PairDone
    /\ fs # started
    /\ resp # Alone
    /\ before.req.params.path # ReqPath

(***************************************************************************)
(* C16: the router has the two states awaiting request and dispatching,    *)
(* and every OPTIONS, GET or POST request, whatever its path and body, is  *)
(* answered with exactly one response by the time the router is back in    *)
(* awaiting request: no handler ends without having written a response.    *)
(***************************************************************************)
C16_EveryRequestAnswered ==
    /\ pc \in {"awaiting", "dispatching"}
    /\ Handled => resp.status # 0

====
